---------------------------- MODULE Spec2Model ----------------------------
(* A model of the Tower of Hanoi core (hanoi_core.py): the recursive move  *)
(* generator generate_moves and the replaying validator validate_sequence. *)
(* A Python list is a sequence, its last element the top of a stack; a     *)
(* move (a, b) is the pair <<a, b>>; Optional[str] is None == <<>> or      *)
(* <<text>>, where text is the f-string as the sequence of its pieces.     *)
EXTENDS Integers, Sequences, FiniteSets, TLC

VARIABLES
    pc,        \* "idle", "generated", "loop", "returned"
    n,         \* the disk count passed to the call
    source,    \* generate_moves: the three label arguments
    target,
    aux,
    result,    \* the list generate_moves returned
    moves,     \* validate_sequence: the list being replayed
    i,         \* validate_sequence: the 1-based index of enumerate(moves, 1)
    rods,      \* validate_sequence: the dict of the three stacks
    d,         \* validate_sequence: the disk popped last (0: unbound)
    ret,       \* validate_sequence: the returned pair (<<>>: not returned)
    agree,     \* the moves replayed so far are the first i - 1 of result
    again,     \* how many times the call was made again with its arguments
    first,     \* what the call returned before it was made again
    stack,     \* generate_moves: the active calls, the innermost last
    maxdepth,  \* generate_moves: the most calls active at once so far
    num_disks,        \* HanoiVisualizer.num_disks
    gui_rods,         \* HanoiVisualizer.rods, each disk as its number
    move_sequence,    \* HanoiVisualizer.move_sequence
    move_index,       \* HanoiVisualizer.move_index
    timer_active,     \* HanoiVisualizer.timer.isActive()
    fast_forwarding,  \* HanoiVisualizer.fast_forwarding
    ff_busy,          \* HanoiVisualizer._ff_busy
    move_items,       \* HanoiVisualizer._move_items: the index each node holds
    selector_enabled, \* HanoiVisualizer.disk_selector.isEnabled()
    logged_error,     \* perform_next_move has taken an illegal-move branch
    event             \* the handler that ran last, and its argument

\* The variables of the two functions of hanoi_core.py.
core == <<pc, n, source, target, aux, result, moves, i, rods, d, ret, agree>>

\* The variables of repeated calls and of the generator's call stack.
calls == <<again, first>>
frames == <<stack, maxdepth>>

\* The variables of the window (main.py).
gui == <<num_disks, gui_rods, move_sequence, move_index, timer_active,
         fast_forwarding, ff_busy, move_items, selector_enabled, logged_error,
         event>>

vars == <<core, calls, frames, gui>>

---------------------------------------------------------------------------
(* Bounds of the inputs.                                                   *)

\* generate_moves is called with n in -NegN .. MaxN
MaxN == 5
NegN == 2
\* a call is made again with the same arguments at most MaxAgain times
MaxAgain == 1
\* validate_sequence is called on arbitrary lists for n in 0 .. ValN
ValN == 3
\* ... of at most MaxLen moves
MaxLen == 3

\* The keys of the validator's dict.
Rods == {"A", "B", "C"}

\* The labels a caller may pass: the three rods and one unknown label.
Labels == Rods \cup {"Z"}

Moves == Labels \X Labels

MoveLists == UNION {[1..k -> Moves] : k \in 0..MaxLen}

None == <<>>

---------------------------------------------------------------------------
(* generate_moves                                                          *)

\* A variant whose base case also swallows the one-disk call.
RECURSIVE generate_moves_short(_, _, _, _)
generate_moves_short(k, src, tgt, ax) ==
    IF k <= 1 THEN <<>>
    ELSE generate_moves_short(k - 1, src, ax, tgt)
             \o << <<src, tgt>> >>
             \o generate_moves_short(k - 1, ax, tgt, src)

\* A variant whose first recursive call keeps target and aux in place.
RECURSIVE generate_moves_noswap(_, _, _, _)
generate_moves_noswap(k, src, tgt, ax) ==
    IF k <= 0 THEN <<>>
    ELSE IF k = 1 THEN << <<src, tgt>> >>
    ELSE generate_moves_noswap(k - 1, src, tgt, ax)
             \o << <<src, tgt>> >>
             \o generate_moves_noswap(k - 1, ax, tgt, src)

RECURSIVE generate_moves(_, _, _, _)
generate_moves(k, src, tgt, ax) ==
    IF k <= 0 THEN <<>>
    ELSE IF k = 1 THEN << <<src, tgt>> >>
    ELSE generate_moves(k - 1, src, ax, tgt)
             \o << <<src, tgt>> >>
             \o generate_moves(k - 1, ax, tgt, src)

---------------------------------------------------------------------------
(* validate_sequence                                                       *)

\* rods = {"A": list(range(n, 0, -1)), "B": [], "C": []}
InitRods(k) ==
    [r \in Rods |-> IF r = "A" THEN [j \in 1..k |-> k - j + 1] ELSE <<>>]

\* rods[x][-1]
Top(s) == s[Len(s)]

\* the list after rods[x].pop()
Pop(s) == SubSeq(s, 1, Len(s) - 1)

\* A variant that counts the moves from 0.
UnknownMsg_zero(k, a, b) ==
    <<"Move ", ToString(k - 1), ": unknown rod label ", a, "->", b>>

\* f"Move {i}: unknown rod label {a}->{b}"
UnknownMsg(k, a, b) ==
    <<"Move ", ToString(k), ": unknown rod label ", a, "->", b>>

\* A variant that counts the moves from 0.
EmptyMsg_zero(k, a) ==
    <<"Move ", ToString(k - 1), ": take from empty rod ", a>>

\* f"Move {i}: take from empty rod {a}"
EmptyMsg(k, a) ==
    <<"Move ", ToString(k), ": take from empty rod ", a>>

\* A variant that reports the two disks the other way round.
LargerMsg_swapped(k, disk, top, b) ==
    <<"Move ", ToString(k), ": put larger (", ToString(top),
      ") on smaller (", ToString(disk), ") at ", b>>

\* f"Move {i}: put larger ({d}) on smaller ({rods[b][-1]}) at {b}"
LargerMsg(k, disk, top, b) ==
    <<"Move ", ToString(k), ": put larger (", ToString(disk),
      ") on smaller (", ToString(top), ") at ", b>>

\* A variant that tests the source's stack before the labels.
LoopBody_emptyfirst(rs, disk, k, a, b) ==
    IF a \in DOMAIN rs /\ rs[a] = <<>>
    THEN [rods |-> rs, d |-> disk, ret |-> <<FALSE, <<EmptyMsg(k, a)>> >>]
    ELSE IF a \notin DOMAIN rs \/ b \notin DOMAIN rs
    THEN [rods |-> rs, d |-> disk, ret |-> <<FALSE, <<UnknownMsg(k, a, b)>> >>]
    ELSE LET top    == Top(rs[a])
             popped == [rs EXCEPT ![a] = Pop(@)]
         IN  IF popped[b] # <<>> /\ Top(popped[b]) < top
             THEN [rods |-> popped, d |-> top,
                   ret |-> <<FALSE, <<LargerMsg(k, top, Top(popped[b]), b)>> >>]
             ELSE [rods |-> [popped EXCEPT ![b] = Append(@, top)], d |-> top,
                   ret |-> <<>>]

\* A variant that pushes without comparing the sizes.
LoopBody_nocheck(rs, disk, k, a, b) ==
    IF a \notin DOMAIN rs \/ b \notin DOMAIN rs
    THEN [rods |-> rs, d |-> disk, ret |-> <<FALSE, <<UnknownMsg(k, a, b)>> >>]
    ELSE IF rs[a] = <<>>
    THEN [rods |-> rs, d |-> disk, ret |-> <<FALSE, <<EmptyMsg(k, a)>> >>]
    ELSE LET top    == Top(rs[a])
             popped == [rs EXCEPT ![a] = Pop(@)]
         IN  [rods |-> [popped EXCEPT ![b] = Append(@, top)], d |-> top,
              ret |-> <<>>]

\* A variant that compares the sizes the wrong way round.
LoopBody_reversed(rs, disk, k, a, b) ==
    IF a \notin DOMAIN rs \/ b \notin DOMAIN rs
    THEN [rods |-> rs, d |-> disk, ret |-> <<FALSE, <<UnknownMsg(k, a, b)>> >>]
    ELSE IF rs[a] = <<>>
    THEN [rods |-> rs, d |-> disk, ret |-> <<FALSE, <<EmptyMsg(k, a)>> >>]
    ELSE LET top    == Top(rs[a])
             popped == [rs EXCEPT ![a] = Pop(@)]
         IN  IF popped[b] # <<>> /\ Top(popped[b]) > top
             THEN [rods |-> popped, d |-> top,
                   ret |-> <<FALSE, <<LargerMsg(k, top, Top(popped[b]), b)>> >>]
             ELSE [rods |-> [popped EXCEPT ![b] = Append(@, top)], d |-> top,
                   ret |-> <<>>]

\* A variant that puts the popped disk back before it reports a placement.
LoopBody_restore(rs, disk, k, a, b) ==
    IF a \notin DOMAIN rs \/ b \notin DOMAIN rs
    THEN [rods |-> rs, d |-> disk, ret |-> <<FALSE, <<UnknownMsg(k, a, b)>> >>]
    ELSE IF rs[a] = <<>>
    THEN [rods |-> rs, d |-> disk, ret |-> <<FALSE, <<EmptyMsg(k, a)>> >>]
    ELSE LET top    == Top(rs[a])
             popped == [rs EXCEPT ![a] = Pop(@)]
         IN  IF popped[b] # <<>> /\ Top(popped[b]) < top
             THEN [rods |-> rs, d |-> top,
                   ret |-> <<FALSE, <<LargerMsg(k, top, Top(popped[b]), b)>> >>]
             ELSE [rods |-> [popped EXCEPT ![b] = Append(@, top)], d |-> top,
                   ret |-> <<>>]

\* A variant that reads the top disk of the source and leaves it there.
LoopBody_nopop(rs, disk, k, a, b) ==
    IF a \notin DOMAIN rs \/ b \notin DOMAIN rs
    THEN [rods |-> rs, d |-> disk, ret |-> <<FALSE, <<UnknownMsg(k, a, b)>> >>]
    ELSE IF rs[a] = <<>>
    THEN [rods |-> rs, d |-> disk, ret |-> <<FALSE, <<EmptyMsg(k, a)>> >>]
    ELSE LET top == Top(rs[a])
         IN  IF rs[b] # <<>> /\ Top(rs[b]) < top
             THEN [rods |-> rs, d |-> top,
                   ret |-> <<FALSE, <<LargerMsg(k, top, Top(rs[b]), b)>> >>]
             ELSE [rods |-> [rs EXCEPT ![b] = Append(@, top)], d |-> top,
                   ret |-> <<>>]

\* A variant that takes a move from a rod to itself for an unknown label.
LoopBody_noself(rs, disk, k, a, b) ==
    IF a \notin DOMAIN rs \/ b \notin DOMAIN rs \/ a = b
    THEN [rods |-> rs, d |-> disk, ret |-> <<FALSE, <<UnknownMsg(k, a, b)>> >>]
    ELSE IF rs[a] = <<>>
    THEN [rods |-> rs, d |-> disk, ret |-> <<FALSE, <<EmptyMsg(k, a)>> >>]
    ELSE LET top    == Top(rs[a])
             popped == [rs EXCEPT ![a] = Pop(@)]
         IN  IF popped[b] # <<>> /\ Top(popped[b]) < top
             THEN [rods |-> popped, d |-> top,
                   ret |-> <<FALSE, <<LargerMsg(k, top, Top(popped[b]), b)>> >>]
             ELSE [rods |-> [popped EXCEPT ![b] = Append(@, top)], d |-> top,
                   ret |-> <<>>]

\* One iteration of the for loop on move k = (a, b): the stacks and the
\* popped disk it leaves, and the pair it returns (<<>>: it goes on).
LoopBody(rs, disk, k, a, b) ==
    IF a \notin DOMAIN rs \/ b \notin DOMAIN rs
    THEN [rods |-> rs, d |-> disk, ret |-> <<FALSE, <<UnknownMsg(k, a, b)>> >>]
    ELSE IF rs[a] = <<>>
    THEN [rods |-> rs, d |-> disk, ret |-> <<FALSE, <<EmptyMsg(k, a)>> >>]
    ELSE LET top    == Top(rs[a])
             popped == [rs EXCEPT ![a] = Pop(@)]
         IN  IF popped[b] # <<>> /\ Top(popped[b]) < top
             THEN [rods |-> popped, d |-> top,
                   ret |-> <<FALSE, <<LargerMsg(k, top, Top(popped[b]), b)>> >>]
             ELSE [rods |-> [popped EXCEPT ![b] = Append(@, top)], d |-> top,
                   ret |-> <<>>]

\* The loop from move k on, and the return after it.
RECURSIVE Replay(_, _, _, _)
Replay(rs, disk, ms, k) ==
    IF k > Len(ms)
    THEN [rods |-> rs, d |-> disk, i |-> k, ret |-> <<TRUE, None>>]
    ELSE LET r == LoopBody(rs, disk, k, ms[k][1], ms[k][2])
         IN  IF r.ret # <<>>
             THEN [rods |-> r.rods, d |-> r.d, i |-> k, ret |-> r.ret]
             ELSE Replay(r.rods, r.d, ms, k + 1)

validate_sequence(k, ms) == Replay(InitRods(k), 0, ms, 1).ret

---------------------------------------------------------------------------
(* The state before anything has run.                                      *)

DEFAULT_NUMBER_OF_DISKS == 3

\* No call has been made again.
InitCalls == again = 0 /\ first = [fn |-> "", value |-> <<>>]

\* No call of generate_moves is active.
InitFrames == stack = <<>> /\ maxdepth = 0

\* item.data(0, UserRole) of a tree node that holds no move index: None.
NoIndex == 0 - 1

\* HanoiVisualizer.__init__, init_disks and _update_controls_state included.
InitWindow ==
    /\ num_disks = DEFAULT_NUMBER_OF_DISKS
    /\ gui_rods = InitRods(DEFAULT_NUMBER_OF_DISKS)
    /\ move_sequence = <<>>
    /\ move_index = 0
    /\ timer_active = FALSE
    /\ fast_forwarding = FALSE
    /\ ff_busy = FALSE
    /\ move_items = <<>>
    /\ selector_enabled = TRUE
    /\ logged_error = FALSE
    /\ event = [name |-> "__init__", arg |-> NoIndex]

---------------------------------------------------------------------------
(* The calls.                                                              *)

Init ==
    /\ pc = "idle"
    /\ n = 0
    /\ source = "A" /\ target = "C" /\ aux = "B"
    /\ result = <<>>
    /\ moves = <<>>
    /\ i = 1
    /\ rods = InitRods(0)
    /\ d = 0
    /\ ret = <<>>
    /\ agree = TRUE
    /\ InitCalls /\ InitFrames /\ InitWindow

\* A call generate_moves(k, s, t, x) and its return.
GenerateMoves ==
    /\ pc = "idle"
    /\ \E k \in (0 - NegN)..MaxN, s \in Labels, t \in Labels, x \in Labels :
        /\ n' = k
        /\ source' = s /\ target' = t /\ aux' = x
        /\ result' = generate_moves(k, s, t, x)
    /\ pc' = "generated"
    /\ UNCHANGED <<moves, i, rods, d, ret, agree, calls, frames, gui>>

\* validate_sequence(n, generate_moves(n, ...)): the call, to the loop's head.
ValidateGenerated ==
    /\ pc = "generated"
    /\ moves' = result
    /\ rods' = InitRods(n)
    /\ i' = 1
    /\ pc' = "loop"
    /\ UNCHANGED <<n, source, target, aux, result, d, ret, agree,
                   calls, frames, gui>>

\* validate_sequence(k, ms) on any list: the call, to the loop's head.
ValidateInput ==
    /\ pc = "idle"
    /\ \E k \in 0..ValN, ms \in MoveLists :
        /\ n' = k
        /\ moves' = ms
        /\ rods' = InitRods(k)
    /\ i' = 1
    /\ pc' = "loop"
    /\ UNCHANGED <<source, target, aux, result, d, ret, agree,
                   calls, frames, gui>>

\* The iteration on move i, whose outcome is r.
Iterate(r) ==
    /\ rods' = r.rods
    /\ d' = r.d
    /\ IF r.ret # <<>>
       THEN pc' = "returned" /\ ret' = r.ret /\ i' = i
       ELSE pc' = "loop" /\ ret' = ret /\ i' = i + 1
    /\ UNCHANGED <<n, source, target, aux, result, moves, agree,
                   calls, frames, gui>>

AtMove == pc = "loop" /\ i <= Len(moves)

\* if a not in rods or b not in rods: return False, ...
UnknownLabel ==
    /\ AtMove
    /\ moves[i][1] \notin Rods \/ moves[i][2] \notin Rods
    /\ Iterate(LoopBody(rods, d, i, moves[i][1], moves[i][2]))

\* if not rods[a]: return False, ...
EmptySource ==
    /\ AtMove
    /\ moves[i][1] \in Rods /\ moves[i][2] \in Rods
    /\ rods[moves[i][1]] = <<>>
    /\ Iterate(LoopBody(rods, d, i, moves[i][1], moves[i][2]))

\* d = rods[a].pop(), then if rods[b] and rods[b][-1] < d: return False, ...
IllegalPlacement ==
    /\ AtMove
    /\ moves[i][1] \in Rods /\ moves[i][2] \in Rods
    /\ rods[moves[i][1]] # <<>>
    /\ LET after == [rods EXCEPT ![moves[i][1]] = Pop(@)]
       IN  /\ after[moves[i][2]] # <<>>
           /\ Top(after[moves[i][2]]) < Top(rods[moves[i][1]])
    /\ Iterate(LoopBody(rods, d, i, moves[i][1], moves[i][2]))

\* d = rods[a].pop(), then rods[b].append(d)
MoveDisk ==
    /\ AtMove
    /\ moves[i][1] \in Rods /\ moves[i][2] \in Rods
    /\ rods[moves[i][1]] # <<>>
    /\ LET after == [rods EXCEPT ![moves[i][1]] = Pop(@)]
       IN  ~(/\ after[moves[i][2]] # <<>>
             /\ Top(after[moves[i][2]]) < Top(rods[moves[i][1]]))
    /\ Iterate(LoopBody(rods, d, i, moves[i][1], moves[i][2]))

\* return True, None
ReturnOk ==
    /\ pc = "loop"
    /\ i > Len(moves)
    /\ pc' = "returned"
    /\ ret' = <<TRUE, None>>
    /\ UNCHANGED <<n, source, target, aux, result, moves, i, rods, d, agree,
                   calls, frames, gui>>

Next ==
    \/ GenerateMoves
    \/ ValidateGenerated
    \/ ValidateInput
    \/ UnknownLabel
    \/ EmptySource
    \/ IllegalPlacement
    \/ MoveDisk
    \/ ReturnOk

Spec == Init /\ [][Next]_vars

---------------------------------------------------------------------------
(* The validator's loop on every list at once: the list is not given, each *)
(* iteration takes any next move, and agree records whether the moves      *)
(* taken so far are those of generate_moves(n), kept in result. Lists of   *)
(* more than 2^n - 1 moves are not followed.                               *)

InitSearch ==
    /\ pc = "loop"
    /\ n \in 1..MaxN
    /\ source = "A" /\ target = "C" /\ aux = "B"
    /\ result = generate_moves(n, "A", "C", "B")
    /\ moves = <<>>
    /\ i = 1
    /\ rods = InitRods(n)
    /\ d = 0
    /\ ret = <<>>
    /\ agree = TRUE
    /\ InitCalls /\ InitFrames /\ InitWindow

\* The iteration on a next move (a, b), whose outcome is r.
Take(a, b, r) ==
    /\ rods' = r.rods
    /\ d' = r.d
    /\ IF r.ret # <<>>
       THEN pc' = "returned" /\ ret' = r.ret /\ i' = i /\ agree' = agree
       ELSE /\ pc' = "loop" /\ ret' = ret /\ i' = i + 1
            /\ agree' = (agree /\ i <= Len(result) /\ result[i] = <<a, b>>)
    /\ UNCHANGED <<n, source, target, aux, result, moves, calls, frames, gui>>

\* An iteration that moves a disk.
SearchMove ==
    /\ pc = "loop"
    /\ i <= 2^n - 1
    /\ \E a \in Labels, b \in Labels :
        LET r == LoopBody(rods, d, i, a, b)
        IN  r.ret = <<>> /\ Take(a, b, r)

\* An iteration that returns False.
SearchReject ==
    /\ pc = "loop"
    /\ i <= 2^n - 1
    /\ \E a \in Labels, b \in Labels :
        LET r == LoopBody(rods, d, i, a, b)
        IN  r.ret # <<>> /\ Take(a, b, r)

NextSearch ==
    \/ SearchMove
    \/ SearchReject

SpecSearch == InitSearch /\ [][NextSearch]_vars

---------------------------------------------------------------------------
(* Calls made again: after a call has returned, the same function is       *)
(* called with the same arguments, whatever the calls before have left.    *)

\* A variant that keeps the dict of the call before.
ValidateAgain_stale ==
    /\ pc = "returned"
    /\ again < MaxAgain
    /\ first' = [fn |-> "validate_sequence", value |-> ret]
    /\ again' = again + 1
    /\ rods' = rods
    /\ i' = 1
    /\ d' = 0
    /\ ret' = <<>>
    /\ pc' = "loop"
    /\ UNCHANGED <<n, source, target, aux, result, moves, agree, frames, gui>>

\* validate_sequence(n, moves) once more: the call, to the loop's head.
ValidateAgain ==
    /\ pc = "returned"
    /\ again < MaxAgain
    /\ first' = [fn |-> "validate_sequence", value |-> ret]
    /\ again' = again + 1
    /\ rods' = InitRods(n)
    /\ i' = 1
    /\ d' = 0
    /\ ret' = <<>>
    /\ pc' = "loop"
    /\ UNCHANGED <<n, source, target, aux, result, moves, agree, frames, gui>>

\* generate_moves(n, source, target, aux) once more, and its return.
GenerateAgain ==
    /\ pc = "generated"
    /\ again < MaxAgain
    /\ first' = [fn |-> "generate_moves", value |-> result]
    /\ again' = again + 1
    /\ result' = generate_moves(n, source, target, aux)
    /\ UNCHANGED <<pc, n, source, target, aux, moves, i, rods, d, ret, agree,
                   frames, gui>>

NextCalls ==
    \/ GenerateMoves
    \/ GenerateAgain
    \/ ValidateGenerated
    \/ ValidateInput
    \/ ValidateAgain
    \/ UnknownLabel
    \/ EmptySource
    \/ IllegalPlacement
    \/ MoveDisk
    \/ ReturnOk

SpecCalls == Init /\ [][NextCalls]_vars

---------------------------------------------------------------------------
(* generate_moves call by call: stack holds a frame for each active call,  *)
(* with its arguments, the place it has reached and the lists its two      *)
(* recursive calls have returned.                                          *)

\* A variant without the one-disk case.
Branch_noone(k) == IF k <= 0 THEN "empty" ELSE "recurse"

\* if n <= 0: ... if n == 1: ... return (...)
Branch(k) == IF k <= 0 THEN "empty" ELSE IF k = 1 THEN "one" ELSE "recurse"

\* The frame of a call generate_moves(k, s, t, x) that has just been entered.
Frame(k, s, t, x) ==
    [n |-> k, source |-> s, target |-> t, aux |-> x,
     at |-> "enter", left |-> <<>>, right |-> <<>>]

\* The innermost call returns v: to its caller, or to the outside.
Return(v) ==
    LET rest == Pop(stack)
    IN  IF rest = <<>>
        THEN /\ stack' = <<>>
             /\ result' = v
             /\ pc' = "generated"
        ELSE /\ stack' = [rest EXCEPT ![Len(rest)] =
                            IF @.at = "first"
                            THEN [@ EXCEPT !.at = "first_done", !.left = v]
                            ELSE [@ EXCEPT !.at = "second_done", !.right = v]]
             /\ result' = result
             /\ pc' = pc

\* The innermost call calls generate_moves(k, s, t, x).
Call(at, k, s, t, x) ==
    /\ stack' = Append([stack EXCEPT ![Len(stack)].at = at], Frame(k, s, t, x))
    /\ maxdepth' = IF Len(stack) + 1 > maxdepth THEN Len(stack) + 1 ELSE maxdepth
    /\ UNCHANGED <<pc, result>>

Running == pc = "generating" /\ stack # <<>>

\* A call generate_moves(k, s, t, x) from outside.
GenEnter ==
    /\ pc = "idle"
    /\ \E k \in (0 - NegN)..MaxN, s \in Labels, t \in Labels, x \in Labels :
        /\ n' = k
        /\ source' = s /\ target' = t /\ aux' = x
        /\ stack' = <<Frame(k, s, t, x)>>
    /\ maxdepth' = 1
    /\ pc' = "generating"
    /\ UNCHANGED <<result, moves, i, rods, d, ret, agree, calls, gui>>

\* if n <= 0: return []
GenReturnEmpty ==
    /\ Running
    /\ Top(stack).at = "enter" /\ Branch(Top(stack).n) = "empty"
    /\ Return(<<>>)
    /\ UNCHANGED <<n, source, target, aux, maxdepth, moves, i, rods, d, ret,
                   agree, calls, gui>>

\* if n == 1: return [(source, target)]
GenReturnOne ==
    /\ Running
    /\ Top(stack).at = "enter" /\ Branch(Top(stack).n) = "one"
    /\ Return(<< <<Top(stack).source, Top(stack).target>> >>)
    /\ UNCHANGED <<n, source, target, aux, maxdepth, moves, i, rods, d, ret,
                   agree, calls, gui>>

\* generate_moves(n - 1, source, aux, target)
GenCallFirst ==
    /\ Running
    /\ Top(stack).at = "enter" /\ Branch(Top(stack).n) = "recurse"
    /\ LET f == Top(stack)
       IN  Call("first", f.n - 1, f.source, f.aux, f.target)
    /\ UNCHANGED <<n, source, target, aux, moves, i, rods, d, ret, agree,
                   calls, gui>>

\* generate_moves(n - 1, aux, target, source)
GenCallSecond ==
    /\ Running
    /\ Top(stack).at = "first_done"
    /\ LET f == Top(stack)
       IN  Call("second", f.n - 1, f.aux, f.target, f.source)
    /\ UNCHANGED <<n, source, target, aux, moves, i, rods, d, ret, agree,
                   calls, gui>>

\* return (... + [(source, target)] + ...)
GenReturnConcat ==
    /\ Running
    /\ Top(stack).at = "second_done"
    /\ LET f == Top(stack)
       IN  Return(f.left \o << <<f.source, f.target>> >> \o f.right)
    /\ UNCHANGED <<n, source, target, aux, maxdepth, moves, i, rods, d, ret,
                   agree, calls, gui>>

NextGen ==
    \/ GenEnter
    \/ GenReturnEmpty
    \/ GenReturnOne
    \/ GenCallFirst
    \/ GenCallSecond
    \/ GenReturnConcat

\* A call that can take a step takes it: the interpreter runs on.
SpecGen == Init /\ [][NextGen]_vars /\ WF_vars(NextGen)

---------------------------------------------------------------------------
(* The window of main.py.  Qt runs one handler at a time, so each handler  *)
(* is one step; a handler is an operator on the record of the window's     *)
(* fields, composed as the code composes the calls.                        *)

\* The selector offers 1 to 10 disks; the model offers 1 to GuiMaxDisks.
GuiMaxDisks == 3

Window ==
    [num_disks |-> num_disks, rods |-> gui_rods,
     move_sequence |-> move_sequence, move_index |-> move_index,
     timer_active |-> timer_active, fast_forwarding |-> fast_forwarding,
     ff_busy |-> ff_busy, move_items |-> move_items,
     selector_enabled |-> selector_enabled, logged_error |-> logged_error]

\* The handler leaves the window as w; ev names the handler.
Becomes(w, ev) ==
    /\ num_disks' = w.num_disks
    /\ gui_rods' = w.rods
    /\ move_sequence' = w.move_sequence
    /\ move_index' = w.move_index
    /\ timer_active' = w.timer_active
    /\ fast_forwarding' = w.fast_forwarding
    /\ ff_busy' = w.ff_busy
    /\ move_items' = w.move_items
    /\ selector_enabled' = w.selector_enabled
    /\ logged_error' = w.logged_error
    /\ event' = ev
    /\ UNCHANGED <<core, calls, frames>>

Handler(name, arg) == [name |-> name, arg |-> arg]

\* _update_controls_state
update_controls_state(w) ==
    [w EXCEPT !.selector_enabled = ~(w.timer_active \/ w.ff_busy)]

\* init_disks
init_disks(w) ==
    [w EXCEPT !.rods = InitRods(w.num_disks),
              !.move_sequence = <<>>,
              !.move_index = 0]

\* _collect_moves_tree: the indices given to the move nodes it appends to
\* _move_items, _tree_index being idx at the call.
RECURSIVE collect_moves_tree(_, _)
collect_moves_tree(k, idx) ==
    IF k = 1
    THEN <<idx>>
    ELSE LET l == collect_moves_tree(k - 1, idx)
         IN  l \o <<idx + Len(l)>> \o collect_moves_tree(k - 1, idx + Len(l) + 1)

\* A variant called with restart_scene=False.
prepare_run_norestart(w) ==
    LET ms == generate_moves(w.num_disks, "A", "C", "B")
        v  == validate_sequence(w.num_disks, ms)
    IN  IF v[1] # TRUE
        THEN [ok |-> FALSE, w |-> [w EXCEPT !.move_sequence = <<>>]]
        ELSE [ok |-> TRUE,
              w  |-> update_controls_state(
                        [w EXCEPT !.move_sequence = ms,
                                  !.move_items = collect_moves_tree(w.num_disks, 0),
                                  !.move_index = 0])]

\* _prepare_run(restart_scene=True): the pair of its return value and the
\* window it leaves.
prepare_run(w) ==
    LET w1 == init_disks(w)
        ms == generate_moves(w1.num_disks, "A", "C", "B")
        v  == validate_sequence(w1.num_disks, ms)
    IN  IF v[1] # TRUE
        THEN [ok |-> FALSE, w |-> [w1 EXCEPT !.move_sequence = <<>>]]
        ELSE [ok |-> TRUE,
              w  |-> update_controls_state(
                        [w1 EXCEPT !.move_sequence = ms,
                                   !.move_items = collect_moves_tree(w1.num_disks, 0),
                                   !.move_index = 0])]

\* perform_next_move; move_sequence[move_index] of the code is the element
\* move_index + 1 of the sequence here.
perform_next_move(w) ==
    IF w.move_index >= Len(w.move_sequence)
    THEN update_controls_state([w EXCEPT !.timer_active = FALSE])
    ELSE LET from_rod == w.move_sequence[w.move_index + 1][1]
             to_rod   == w.move_sequence[w.move_index + 1][2]
         IN  IF w.rods[from_rod] = <<>>
             THEN update_controls_state(
                      [w EXCEPT !.timer_active = FALSE, !.logged_error = TRUE])
             ELSE LET disk   == Top(w.rods[from_rod])
                      popped == [w.rods EXCEPT ![from_rod] = Pop(@)]
                  IN  IF popped[to_rod] # <<>> /\ disk > Top(popped[to_rod])
                      THEN update_controls_state(
                               [w EXCEPT !.timer_active = FALSE,
                                         !.logged_error = TRUE])
                      ELSE [w EXCEPT
                               !.rods = [popped EXCEPT ![to_rod] = Append(@, disk)],
                               !.move_index = @ + 1]

\* start_animation
start_animation(w) ==
    LET p == prepare_run([w EXCEPT !.timer_active = FALSE])
    IN  IF ~p.ok
        THEN p.w
        ELSE update_controls_state([p.w EXCEPT !.timer_active = TRUE])

\* step_once
step_once(w) ==
    IF w.timer_active \/ w.ff_busy
    THEN w
    ELSE IF w.move_sequence = <<>>
         THEN LET p == prepare_run(w)
              IN  IF ~p.ok THEN p.w ELSE perform_next_move(p.w)
         ELSE perform_next_move(w)

\* reset_board
reset_board(w) ==
    update_controls_state(
        init_disks([w EXCEPT !.timer_active = FALSE, !.move_index = 0]))

\* change_disk_count
change_disk_count(w, value) == reset_board([w EXCEPT !.num_disks = value])

\* while self.move_index <= idx and self.move_index < len(self.move_sequence)
RECURSIVE fast_forward(_, _)
fast_forward(w, idx) ==
    IF w.move_index <= idx /\ w.move_index < Len(w.move_sequence)
    THEN fast_forward(perform_next_move(w), idx)
    ELSE w

\* on_tree_item_clicked, idx being item.data(0, UserRole)
on_tree_item_clicked(w, idx) ==
    IF w.ff_busy
    THEN w
    ELSE IF idx = NoIndex
    THEN w
    ELSE LET w1 == update_controls_state([w EXCEPT !.ff_busy = TRUE])
             w2 == init_disks([w1 EXCEPT !.timer_active = FALSE])
             w3 == IF w2.move_sequence = <<>>
                   THEN [w2 EXCEPT !.move_sequence =
                            generate_moves(w2.num_disks, "A", "C", "B")]
                   ELSE w2
             w4 == fast_forward(
                       [w3 EXCEPT !.move_index = 0, !.fast_forwarding = TRUE], idx)
         IN  update_controls_state(
                 [w4 EXCEPT !.fast_forwarding = FALSE, !.ff_busy = FALSE])

\* The Start button.
StartAnimation ==
    Becomes(start_animation(Window), Handler("start_animation", NoIndex))

\* The timer fires.
TimerTick ==
    /\ timer_active
    /\ Becomes(perform_next_move(Window), Handler("perform_next_move", NoIndex))

\* The Step button or the N key.
StepOnce ==
    Becomes(step_once(Window), Handler("step_once", NoIndex))

\* The Reset button.
ResetBoard ==
    Becomes(reset_board(Window), Handler("reset_board", NoIndex))

\* The selector, when enabled, changes its value.
ChangeDiskCount ==
    /\ selector_enabled
    /\ \E value \in 1..GuiMaxDisks :
        /\ value # num_disks
        /\ Becomes(change_disk_count(Window, value),
                   Handler("change_disk_count", value))

\* A click on a move node of the call tree.
MoveNodeClicked ==
    \E item \in 1..Len(move_items) :
        Becomes(on_tree_item_clicked(Window, move_items[item]),
                Handler("on_tree_item_clicked", move_items[item]))

\* A click on a call node of the call tree, which holds no index.
CallNodeClicked ==
    /\ move_items # <<>>
    /\ Becomes(on_tree_item_clicked(Window, NoIndex),
               Handler("on_tree_item_clicked", NoIndex))

\* The Space key: pause or start.
ToggleStartPause ==
    Becomes(IF timer_active
            THEN [Window EXCEPT !.timer_active = FALSE]
            ELSE start_animation(Window),
            Handler("toggle", NoIndex))

NextGui ==
    \/ StartAnimation
    \/ TimerTick
    \/ StepOnce
    \/ ResetBoard
    \/ ChangeDiskCount
    \/ MoveNodeClicked
    \/ CallNodeClicked
    \/ ToggleStartPause

SpecGui == Init /\ [][NextGui]_vars

---------------------------------------------------------------------------
(* The properties.                                                         *)

\* All k disks on rod p, the largest at the bottom.
StackOn(k, p) ==
    [r \in Rods |-> IF r = p THEN [j \in 1..k |-> k - j + 1] ELSE <<>>]

\* The three rules of the puzzle, on the stacks rs before move (a, b).
Violates(rs, a, b) ==
    \/ a \notin Rods
    \/ b \notin Rods
    \/ rs[a] = <<>>
    \/ rs[b] # <<>> /\ Top(rs[b]) < Top(rs[a])

\* The stacks the validator holds when it reaches move k of ms.
StacksBefore(k, ms, j) == Replay(InitRods(k), 0, SubSeq(ms, 1, j - 1), 1).rods

\* C1: generate_moves(n, ...) returns a list of exactly max(0, 2^n - 1)
\* moves, for every n, positive, zero or negative.
C1_MoveCount ==
    pc = "generated" => Len(result) = (IF n <= 0 THEN 0 ELSE 2^n - 1)

C1_Witness ==
    pc = "generated" /\ n = 4 /\ Len(result) = 15

\* C2: for n >= 1, validate_sequence(n, generate_moves(n)) returns
\* (True, None).
C2_RoundTrip ==
    (pc = "returned" /\ n >= 1 /\ moves = generate_moves(n, "A", "C", "B"))
        => ret = <<TRUE, None>>

C2_Witness ==
    /\ pc = "returned" /\ n = 4 /\ moves = result /\ Len(moves) = 15
    /\ source = "A" /\ target = "C" /\ aux = "B"
    /\ ret = <<TRUE, None>>

\* C3: for n >= 1 and the three rods assigned in any order to source, target
\* and aux, replaying generate_moves(n, source, target, aux) from all n disks
\* on source breaks no rule and ends with all n disks on target, largest at
\* the bottom, and the other two rods empty.
C3_Solves ==
    (pc = "generated" /\ n >= 1 /\ {source, target, aux} = Rods)
        => LET end == Replay(StackOn(n, source), 0, result, 1)
           IN  end.ret = <<TRUE, None>> /\ end.rods = StackOn(n, target)

C3_Witness ==
    /\ pc = "generated" /\ n = 3
    /\ source = "B" /\ target = "A" /\ aux = "C"
    /\ Replay(StackOn(3, "B"), 0, result, 1).rods
           = [A |-> <<3, 2, 1>>, B |-> <<>>, C |-> <<>>]

\* C4: for n >= 1, no list of fewer than 2^n - 1 moves that the validator
\* replays without violation brings all n disks from A to C, and a list of
\* exactly 2^n - 1 such moves that does is generate_moves(n).
C4_UniqueShortest ==
    (pc = "loop" /\ rods = StackOn(n, "C"))
        => /\ i - 1 >= 2^n - 1
           /\ i - 1 = 2^n - 1 => agree /\ Len(result) = i - 1

C4_Witness ==
    pc = "loop" /\ n = 3 /\ rods = StackOn(3, "C") /\ i - 1 = 7 /\ agree

\* The generator as its contract defines it.
RECURSIVE generate(_, _, _, _)
generate(k, s, t, x) ==
    IF k <= 0 THEN <<>>
    ELSE IF k = 1 THEN << <<s, t>> >>
    ELSE generate(k - 1, s, x, t) \o << <<s, t>> >> \o generate(k - 1, x, t, s)

\* C5: for every integer n and every three labels, generate_moves returns
\* the list of the reference definition: empty for n <= 0, the one move
\* (source, target) for n = 1, and otherwise the list for n - 1 from source
\* to aux, then (source, target), then the list for n - 1 from aux to target.
C5_Reference ==
    pc = "generated" => result = generate(n, source, target, aux)

C5_Witness ==
    /\ pc = "generated" /\ n = 2
    /\ source = "Z" /\ target = "A" /\ aux = "A"
    /\ result = << <<"Z", "A">>, <<"Z", "A">>, <<"A", "A">> >>

\* C6: a move i = (a, b) reached with a or b not among A, B, C makes
\* validate_sequence return False with a detail that gives the 1-based
\* index i, the unknown-label kind and the pair a, b.
C6_UnknownLabel ==
    [][(AtMove /\ (moves[i][1] \notin Rods \/ moves[i][2] \notin Rods))
         => /\ pc' = "returned"
            /\ ret'[1] = FALSE
            /\ Len(ret'[2]) = 1
            /\ LET msg == ret'[2][1]
               IN  /\ msg[2] = ToString(i)
                   /\ msg[3] = ": unknown rod label "
                   /\ msg[4] = moves[i][1]
                   /\ msg[6] = moves[i][2]]_vars

C6_Witness ==
    /\ pc = "returned" /\ n = 2 /\ moves = << <<"A", "Z">> >>
    /\ ret = <<FALSE, << <<"Move ", "1", ": unknown rod label ", "A", "->", "Z">> >> >>

\* C7: a move i = (a, b) with both labels known, reached when rod a is
\* empty, makes validate_sequence return False with a detail that gives the
\* 1-based index i and the rod a.
C7_EmptySource ==
    [][(/\ AtMove
        /\ moves[i][1] \in Rods /\ moves[i][2] \in Rods
        /\ rods[moves[i][1]] = <<>>)
         => /\ pc' = "returned"
            /\ ret'[1] = FALSE
            /\ Len(ret'[2]) = 1
            /\ LET msg == ret'[2][1]
               IN  /\ msg[2] = ToString(i)
                   /\ msg[3] = ": take from empty rod "
                   /\ msg[4] = moves[i][1]]_vars

C7_Witness ==
    /\ pc = "returned" /\ n = 1 /\ moves = << <<"B", "C">> >>
    /\ ret = <<FALSE, << <<"Move ", "1", ": take from empty rod ", "B">> >> >>

\* C8: a move i = (a, b) that takes disk d from rod a while rod b is not
\* empty and its top disk is smaller than d makes validate_sequence return
\* False with a detail that gives the index i, the disk d, the smaller top
\* disk and the rod b.
C8_IllegalPlacement ==
    [][(/\ AtMove
        /\ moves[i][1] \in Rods /\ moves[i][2] \in Rods
        /\ rods[moves[i][1]] # <<>>
        /\ rods[moves[i][2]] # <<>>
        /\ Top(rods[moves[i][2]]) < Top(rods[moves[i][1]]))
         => /\ pc' = "returned"
            /\ ret'[1] = FALSE
            /\ Len(ret'[2]) = 1
            /\ LET msg == ret'[2][1]
               IN  /\ msg[2] = ToString(i)
                   /\ msg[3] = ": put larger ("
                   /\ msg[4] = ToString(Top(rods[moves[i][1]]))
                   /\ msg[6] = ToString(Top(rods[moves[i][2]]))
                   /\ msg[8] = moves[i][2]]_vars

C8_Witness ==
    /\ pc = "returned" /\ n = 2 /\ moves = << <<"A", "C">>, <<"A", "C">> >>
    /\ ret = <<FALSE, << <<"Move ", "2", ": put larger (", "2",
                          ") on smaller (", "1", ") at ", "C">> >> >>

\* C9: validate_sequence stops at the first violation: the index it reports
\* is that of the first move that breaks a rule on the stacks left by the
\* moves before it, the moves after it do not change the result, and a move
\* is tested for an unknown label first, then for an empty source, then for
\* its placement.
C9_FailFast ==
    (pc = "returned" /\ ret[1] = FALSE)
        => LET msg    == ret[2][1]
               a      == moves[i][1]
               b      == moves[i][2]
               before == StacksBefore(n, moves, i)
           IN  /\ i \in 1..Len(moves)
               /\ msg[2] = ToString(i)
               /\ \A j \in 1..(i - 1) :
                      ~Violates(StacksBefore(n, moves, j), moves[j][1], moves[j][2])
               /\ Violates(before, a, b)
               /\ validate_sequence(n, SubSeq(moves, 1, i)) = ret
               /\ msg[3] = (IF a \notin Rods \/ b \notin Rods
                            THEN ": unknown rod label "
                            ELSE IF before[a] = <<>>
                            THEN ": take from empty rod "
                            ELSE ": put larger (")

C9_Witness ==
    /\ pc = "returned" /\ n = 1
    /\ moves = << <<"A", "C">>, <<"B", "Z">>, <<"B", "A">> >>
    /\ i = 2
    /\ ret = <<FALSE, << <<"Move ", "2", ": unknown rod label ", "B", "->", "Z">> >> >>

\* C10: for n >= 0 and any list of label pairs, validate_sequence returns
\* (True, None) exactly when no move breaks a rule during the replay; a
\* violation is returned as (False, detail) with a non-empty detail, the
\* call always goes on to its return, and ok is True exactly when the
\* detail is None.
C10_OkIffNoViolation ==
    /\ pc = "loop"
         => ENABLED (UnknownLabel \/ EmptySource \/ IllegalPlacement
                         \/ MoveDisk \/ ReturnOk)
    /\ pc = "returned"
         => /\ ret[1] \in BOOLEAN
            /\ ret[1] = TRUE <=> ret[2] = None
            /\ ret[1] = FALSE => Len(ret[2]) = 1 /\ Len(ret[2][1]) > 0
            /\ ret = <<TRUE, None>>
                 <=> \A j \in 1..Len(moves) :
                        ~Violates(StacksBefore(n, moves, j), moves[j][1], moves[j][2])

C10_Witness ==
    /\ pc = "returned" /\ n = 2
    /\ moves = << <<"A", "B">>, <<"A", "C">>, <<"B", "C">> >>
    /\ ret = <<TRUE, None>>
    /\ rods = StackOn(2, "C")

\* A stack whose disks get strictly smaller from the bottom to the top.
Decreasing(s) == \A j \in 1..(Len(s) - 1) : s[j] > s[j + 1]

\* The disks on a stack.
DisksOf(s) == {s[j] : j \in 1..Len(s)}

\* C11: from A holding n, ..., 1 and B and C empty, after every move the
\* validator replays without violation each of the three stacks is strictly
\* decreasing from the bottom to the top.
C11_StacksDecrease ==
    (pc = "loop" \/ (pc = "returned" /\ ret[1] = TRUE))
        => \A r \in Rods : Decreasing(rods[r])

C11_Witness ==
    /\ pc = "loop" /\ n = 3 /\ i = 4
    /\ rods = [A |-> <<3>>, B |-> <<2, 1>>, C |-> <<>>]

\* C13: when the validator reports a placement the popped disk d is not put
\* back: the source's stack is the one before the move less its top, the
\* destination's stack is as before and d is on no rod; when it reports an
\* unknown label or an empty source the three stacks are as before the move.
C13_NotRestored ==
    [][(AtMove /\ pc' = "returned")
         => LET a == moves[i][1]
                b == moves[i][2]
            IN  IF a \notin Rods \/ b \notin Rods \/ rods[a] = <<>>
                THEN rods' = rods
                ELSE /\ rods' = [rods EXCEPT ![a] = Pop(@)]
                     /\ rods'[b] = rods[b]
                     /\ d' = Top(rods[a])
                     /\ \A r \in Rods : d' \notin DisksOf(rods'[r])]_vars

C13_Witness ==
    /\ pc = "returned" /\ n = 2 /\ moves = << <<"A", "C">>, <<"A", "C">> >>
    /\ ret[1] = FALSE
    /\ rods = [A |-> <<>>, B |-> <<>>, C |-> <<1>>]
    /\ d = 2

\* C15: after every move the validator replays without violation, the disks
\* on A, B and C together are exactly 1, ..., n, each on one rod only.
C15_DisksConserved ==
    (pc = "loop" \/ (pc = "returned" /\ ret[1] = TRUE))
        => /\ DisksOf(rods["A"]) \cup DisksOf(rods["B"]) \cup DisksOf(rods["C"])
                 = 1..n
           /\ Len(rods["A"]) + Len(rods["B"]) + Len(rods["C"]) = n

C15_Witness ==
    /\ pc = "loop" /\ n = 3 /\ i = 3
    /\ rods = [A |-> <<3>>, B |-> <<2>>, C |-> <<1>>]

\* C16: a move from a known rod that is not empty to itself is not reported
\* as a violation and leaves the three stacks as they were.
C16_SelfMove ==
    [][(/\ AtMove
        /\ moves[i][1] = moves[i][2]
        /\ moves[i][1] \in Rods
        /\ rods[moves[i][1]] # <<>>)
         => /\ pc' = "loop"
            /\ i' = i + 1
            /\ ret' = <<>>
            /\ rods' = rods]_vars

C16_Witness ==
    /\ pc = "returned" /\ n = 2
    /\ moves = << <<"A", "B">>, <<"B", "B">> >>
    /\ ret = <<TRUE, None>>
    /\ rods = [A |-> <<2>>, B |-> <<1>>, C |-> <<>>]

FramesAgree ==
    pc = "generated" => result = generate_moves(n, source, target, aux)

\* C14: generate_moves terminates for every integer n, and for n >= 1 the
\* most calls of generate_moves active at once during the computation is
\* exactly n.
C14_TerminatesDepthN ==
    /\ (pc = "generating") ~> (pc = "generated" /\ stack = <<>>)
    /\ [](Len(stack) <= maxdepth)
    /\ []((pc = "generating" /\ n >= 1) => maxdepth <= n)
    /\ []((pc = "generated" /\ n >= 1) => maxdepth = n)

C14_Witness ==
    pc = "generated" /\ n = 4 /\ maxdepth = 4 /\ Len(result) = 15

\* The stacks after the first j moves of the canonical solution for k disks.
Canonical(k, j) ==
    Replay(InitRods(k), 0,
           SubSeq(generate_moves(k, "A", "C", "B"), 1, j), 1)

\* C17: after any sequence of window events, 0 <= move_index <=
\* len(move_sequence), the rods hold what replaying the first move_index moves
\* of generate_moves(num_disks, 'A', 'C', 'B') from all disks on A leaves,
\* every rod is strictly decreasing from the bottom to the top, and
\* perform_next_move has never taken an illegal-move branch.
C17_GuiInvariant ==
    /\ move_index \in 0..Len(move_sequence)
    /\ move_index <= Len(generate_moves(num_disks, "A", "C", "B"))
    /\ Canonical(num_disks, move_index).ret = <<TRUE, None>>
    /\ gui_rods = Canonical(num_disks, move_index).rods
    /\ \A r \in Rods : Decreasing(gui_rods[r])
    /\ ~logged_error

C17_Witness ==
    /\ event.name = "perform_next_move"
    /\ num_disks = 2
    /\ Len(move_items) = 3
    /\ move_index = 3
    /\ gui_rods = [r \in Rods |-> IF r = "C" THEN <<2, 1>> ELSE <<>>]

\* C18: whatever came before, when on_tree_item_clicked returns from a click
\* on a move node that holds idx, the timer is stopped, move_index = idx + 1,
\* the rods hold what moves 0..idx of the current move sequence leave, and
\* fast_forwarding and _ff_busy are False; a click while _ff_busy is True
\* changes nothing.
C18_ClickFastForwards ==
    [][(event'.name = "on_tree_item_clicked" /\ event'.arg # NoIndex) =>
          IF ff_busy
          THEN UNCHANGED <<num_disks, gui_rods, move_sequence, move_index,
                           timer_active, fast_forwarding, ff_busy, move_items,
                           selector_enabled, logged_error>>
          ELSE /\ ~timer_active'
               /\ move_index' = event'.arg + 1
               /\ gui_rods' = Replay(InitRods(num_disks'), 0,
                                     SubSeq(move_sequence', 1, event'.arg + 1),
                                     1).rods
               /\ ~fast_forwarding'
               /\ ~ff_busy']_vars

===========================================================================
